---- MODULE Spec2Model ----
(***************************************************************************)
(* PokeAction of src/plugin.py: target resolution                          *)
(* (get_user_and_group_id), the cooldown gate, dispatch and the action-log *)
(* write of execute, as a state machine over one action instance.          *)
(*                                                                         *)
(* Python values are sequences of one-character strings, so that           *)
(* str.isdigit and re.search are computed on the characters.  None and the *)
(* other non-string outcomes are one-element sequences whose element is    *)
(* not a character.                                                        *)
(***************************************************************************)
EXTENDS Integers, Sequences, FiniteSets, TLC

(* ------------------------------ values -------------------------------- *)

\* Python's None.
None == <<"<None>">>
\* An attribute the instance does not have (hasattr is false).
Missing == <<"<missing>">>
\* A collaborator call that raises an Exception.
RAISE == <<"<raise>">>

\* The string 'None' of line 100.
StrNone == <<"N", "o", "n", "e">>
\* The empty string.
Empty == <<>>

Digits == {"0", "1", "2", "3", "4", "5", "6", "7", "8", "9"}
Whitespace == {" "}

\* bool(v) of a value: None, the empty string (and a missing attribute read
\* through getattr(..., None)) are falsy.
Truthy(v) == v # None /\ v # Empty /\ v # Missing /\ v # RAISE

\* str.isdigit: non-empty and every character a digit.
isdigit(s) == s # None /\ Len(s) > 0 /\ \A i \in 1..Len(s) : s[i] \in Digits

(* ------------------------------ re.search ----------------------------- *)

GroupKey == <<"g", "r", "o", "u", "p", "_", "i", "d", ":">>
UserKey == <<"u", "s", "e", "r", "_", "i", "d", ":">>

\* The literal key stands at position i of text.
LiteralAt(key, text, i) ==
    /\ i + Len(key) - 1 <= Len(text)
    /\ \A k \in 1..Len(key) : text[i + k - 1] = key[k]

\* \s* from position j: the first position at or after j holding no whitespace.
RECURSIVE SkipWhitespace(_, _)
SkipWhitespace(text, j) ==
    IF j <= Len(text) /\ text[j] \in Whitespace
    THEN SkipWhitespace(text, j + 1)
    ELSE j

\* (\d+) from position j, greedy: the last position of the run of digits.
RECURSIVE DigitRunEnd(_, _)
DigitRunEnd(text, j) ==
    IF j + 1 <= Len(text) /\ text[j + 1] \in Digits
    THEN DigitRunEnd(text, j + 1)
    ELSE j

\* key\s*(\d+) matches with the key at position i.
MatchAt(key, text, i) ==
    /\ LiteralAt(key, text, i)
    /\ LET j == SkipWhitespace(text, i + Len(key))
       IN j <= Len(text) /\ text[j] \in Digits

\* re.search(key\s*(\d+), text): group(1) of the leftmost match, or None.
re_search(key, text) ==
    LET starts == {i \in 1..Len(text) : MatchAt(key, text, i)}
    IN IF starts = {}
       THEN None
       ELSE LET i == CHOOSE m \in starts : \A o \in starts : m <= o
                j == SkipWhitespace(text, i + Len(key))
            IN SubSeq(text, j, DigitRunEnd(text, j))

(* ------------------------- get_user_and_group_id ---------------------- *)

\* Lines 89-101: the group id from action_data, then the message metadata,
\* the chat stream and the instance attribute; 'None' becomes None.
AmbientGroup(inp) ==
    LET g0 == inp.group_id
        g1 == IF ~Truthy(g0) /\ inp.message_group # Missing
              THEN inp.message_group ELSE g0
        g2 == IF ~Truthy(g1) /\ Truthy(inp.chat_stream_group)
              THEN inp.chat_stream_group ELSE g1
        g3 == IF ~Truthy(g2) /\ inp.self_group # Missing
              THEN inp.self_group ELSE g2
    IN IF g3 = StrNone THEN None ELSE g3

\* Lines 108-116: the person_api lookup inside try/except.  uid is the user id
\* found (None when the lookup yields nothing or raises), calls the number of
\* person_api calls made.
PersonLookup(inp) ==
    IF inp.person_id = RAISE THEN [uid |-> None, calls |-> 1, raised |-> TRUE]
    ELSE IF ~Truthy(inp.person_id) THEN [uid |-> None, calls |-> 1, raised |-> FALSE]
    ELSE IF inp.person_value = RAISE THEN [uid |-> None, calls |-> 2, raised |-> TRUE]
    ELSE IF ~Truthy(inp.person_value) THEN [uid |-> None, calls |-> 2, raised |-> FALSE]
    ELSE [uid |-> inp.person_value, calls |-> 2, raised |-> FALSE]

\* get_user_and_group_id with line 126 returning the group id found so far.
get_user_and_group_id_KeepsGroup(inp) ==
    LET group_id == AmbientGroup(inp)
        name == inp.user_id
        look == IF Truthy(name)
                THEN PersonLookup(inp)
                ELSE [uid |-> None, calls |-> 0, raised |-> FALSE]
        match_group == re_search(GroupKey, inp.llm_response_text)
        match_user == re_search(UserKey, inp.llm_response_text)
    IN IF Truthy(name) /\ isdigit(name)
       THEN [user_id |-> name, group_id |-> group_id, ambient_group |-> group_id,
             resolver_calls |-> 0, via |-> "digits"]
       ELSE IF look.uid # None
       THEN [user_id |-> look.uid, group_id |-> group_id, ambient_group |-> group_id,
             resolver_calls |-> look.calls, via |-> "person_api"]
       ELSE IF match_user # None
       THEN [user_id |-> match_user,
             group_id |-> IF match_group # None THEN match_group ELSE group_id,
             ambient_group |-> group_id,
             resolver_calls |-> look.calls, via |-> "text"]
       ELSE [user_id |-> None, group_id |-> group_id, ambient_group |-> group_id,
             resolver_calls |-> look.calls, via |-> "none"]

\* get_user_and_group_id without the shortcut of lines 104-105: person_api is
\* asked about every user reference.
get_user_and_group_id_NoShortcut(inp) ==
    LET group_id == AmbientGroup(inp)
        name == inp.user_id
        look == IF Truthy(name)
                THEN PersonLookup(inp)
                ELSE [uid |-> None, calls |-> 0, raised |-> FALSE]
        match_group == re_search(GroupKey, inp.llm_response_text)
        match_user == re_search(UserKey, inp.llm_response_text)
    IN IF look.uid # None
       THEN [user_id |-> look.uid, group_id |-> group_id, ambient_group |-> group_id,
             resolver_calls |-> look.calls, via |-> "person_api"]
       ELSE IF Truthy(name) /\ isdigit(name)
       THEN [user_id |-> name, group_id |-> group_id, ambient_group |-> group_id,
             resolver_calls |-> look.calls, via |-> "digits"]
       ELSE IF match_user # None
       THEN [user_id |-> match_user,
             group_id |-> IF match_group # None THEN match_group ELSE group_id,
             ambient_group |-> group_id,
             resolver_calls |-> look.calls, via |-> "text"]
       ELSE [user_id |-> None, group_id |-> None, ambient_group |-> group_id,
             resolver_calls |-> look.calls, via |-> "none"]

\* get_user_and_group_id without the try/except of lines 109-116: a fault of
\* person_api ends the resolution with no target, the text is not scanned.
get_user_and_group_id_AbortsOnFault(inp) ==
    LET group_id == AmbientGroup(inp)
        name == inp.user_id
        look == IF Truthy(name)
                THEN PersonLookup(inp)
                ELSE [uid |-> None, calls |-> 0, raised |-> FALSE]
        match_group == re_search(GroupKey, inp.llm_response_text)
        match_user == re_search(UserKey, inp.llm_response_text)
    IN IF Truthy(name) /\ isdigit(name)
       THEN [user_id |-> name, group_id |-> group_id, ambient_group |-> group_id,
             resolver_calls |-> 0, via |-> "digits"]
       ELSE IF look.uid # None
       THEN [user_id |-> look.uid, group_id |-> group_id, ambient_group |-> group_id,
             resolver_calls |-> look.calls, via |-> "person_api"]
       ELSE IF match_user # None /\ ~look.raised
       THEN [user_id |-> match_user,
             group_id |-> IF match_group # None THEN match_group ELSE group_id,
             ambient_group |-> group_id,
             resolver_calls |-> look.calls, via |-> "text"]
       ELSE [user_id |-> None, group_id |-> None, ambient_group |-> group_id,
             resolver_calls |-> look.calls, via |-> "none"]

\* get_user_and_group_id without lines 121-122: the group id matched in the
\* text does not replace the group id found before.
get_user_and_group_id_TextKeepsGroup(inp) ==
    LET group_id == AmbientGroup(inp)
        name == inp.user_id
        look == IF Truthy(name)
                THEN PersonLookup(inp)
                ELSE [uid |-> None, calls |-> 0, raised |-> FALSE]
        match_group == re_search(GroupKey, inp.llm_response_text)
        match_user == re_search(UserKey, inp.llm_response_text)
    IN IF Truthy(name) /\ isdigit(name)
       THEN [user_id |-> name, group_id |-> group_id, ambient_group |-> group_id,
             resolver_calls |-> 0, via |-> "digits"]
       ELSE IF look.uid # None
       THEN [user_id |-> look.uid, group_id |-> group_id, ambient_group |-> group_id,
             resolver_calls |-> look.calls, via |-> "person_api"]
       ELSE IF match_user # None
       THEN [user_id |-> match_user,
             group_id |-> IF group_id # None THEN group_id
                          ELSE IF match_group # None THEN match_group ELSE group_id,
             ambient_group |-> group_id,
             resolver_calls |-> look.calls, via |-> "text"]
       ELSE [user_id |-> None, group_id |-> None, ambient_group |-> group_id,
             resolver_calls |-> look.calls, via |-> "none"]

\* get_user_and_group_id with lines 119-122 ahead of line 104: the group id
\* matched in the text replaces the group id on every path.
get_user_and_group_id_TextGroupFirst(inp) ==
    LET match_group == re_search(GroupKey, inp.llm_response_text)
        match_user == re_search(UserKey, inp.llm_response_text)
        group_id == IF match_group # None THEN match_group ELSE AmbientGroup(inp)
        name == inp.user_id
        look == IF Truthy(name)
                THEN PersonLookup(inp)
                ELSE [uid |-> None, calls |-> 0, raised |-> FALSE]
    IN IF Truthy(name) /\ isdigit(name)
       THEN [user_id |-> name, group_id |-> group_id,
             ambient_group |-> AmbientGroup(inp),
             resolver_calls |-> 0, via |-> "digits"]
       ELSE IF look.uid # None
       THEN [user_id |-> look.uid, group_id |-> group_id,
             ambient_group |-> AmbientGroup(inp),
             resolver_calls |-> look.calls, via |-> "person_api"]
       ELSE IF match_user # None
       THEN [user_id |-> match_user, group_id |-> group_id,
             ambient_group |-> AmbientGroup(inp),
             resolver_calls |-> look.calls, via |-> "text"]
       ELSE [user_id |-> None, group_id |-> None,
             ambient_group |-> AmbientGroup(inp),
             resolver_calls |-> look.calls, via |-> "none"]

\* Lines 88-126.
get_user_and_group_id(inp) ==
    LET group_id == AmbientGroup(inp)
        name == inp.user_id
        look == IF Truthy(name)
                THEN PersonLookup(inp)
                ELSE [uid |-> None, calls |-> 0, raised |-> FALSE]
        match_group == re_search(GroupKey, inp.llm_response_text)
        match_user == re_search(UserKey, inp.llm_response_text)
    IN IF Truthy(name) /\ isdigit(name)
       THEN [user_id |-> name, group_id |-> group_id, ambient_group |-> group_id,
             resolver_calls |-> 0, via |-> "digits"]
       ELSE IF look.uid # None
       THEN [user_id |-> look.uid, group_id |-> group_id, ambient_group |-> group_id,
             resolver_calls |-> look.calls, via |-> "person_api"]
       ELSE IF match_user # None
       THEN [user_id |-> match_user,
             group_id |-> IF match_group # None THEN match_group ELSE group_id,
             ambient_group |-> group_id,
             resolver_calls |-> look.calls, via |-> "text"]
       ELSE [user_id |-> None, group_id |-> None, ambient_group |-> group_id,
             resolver_calls |-> look.calls, via |-> "none"]

(* ------------------------------ bounds -------------------------------- *)

\* Invocations of execute in one behaviour.
MaxInvocations == 3
\* time.time() when the instance is loaded.
StartTime == 1000
\* The clock stops advancing here.
MaxTime == 1301

(* --------------------------- program constants ------------------------ *)

\* Line 165: the cooldown window in seconds.
CooldownSeconds == 300
\* Line 23.
POKE_DEBUG == TRUE

\* Line 159, the message "无法找到目标用户ID" (no target user id found).
MsgNoTarget == "no_target_user_id"
\* Line 167, the message "避免重复戳同一个人" (avoid poking the same person again).
MsgDuplicate == "duplicate_target"
\* Line 190, the message "戳一戳成功" (poke succeeded).
MsgSuccess == "poke_succeeded"
\* Line 194, the message "戳一戳失败: {result}" (poke failed).
MsgFailed == "poke_failed"

(* ------------------------------- inputs ------------------------------- *)

U111 == <<"1", "1", "1">>
U222 == <<"2", "2", "2">>
Alice == <<"a", "l", "i", "c", "e">>
G1 == <<"7", "1">>
G2 == <<"7", "2">>
P1 == <<"p", "1">>
D123 == <<"1", "2", "3">>
D456 == <<"4", "5", "6">>
Sp == <<" ">>

\* "user_id: 111"
TextUser111 == UserKey \o Sp \o U111
\* "group_id: 123 user_id: 456"
TextGroupUser == GroupKey \o Sp \o D123 \o Sp \o UserKey \o Sp \o D456

\* What one invocation reads: action_data, the ambient chat context, what the
\* person_api calls would do, and llm_response_text.
Input(u, g, mg, cg, sg, pid, pv, text) ==
    [user_id |-> u, group_id |-> g, message_group |-> mg,
     chat_stream_group |-> cg, self_group |-> sg,
     person_id |-> pid, person_value |-> pv, llm_response_text |-> text]

\* The invocations execute is driven with.
ExecInputs ==
    {Input(u, g, Missing, None, Missing, pid, U222, text) :
        u \in {None, U111, Alice}, g \in {None, Empty, G1},
        pid \in {P1, RAISE}, text \in {Empty, TextUser111}}

\* The resolutions execute is driven with: what line 152 takes from the
\* return value, and the group id found before the text scan.
Resolutions ==
    {[user_id |-> get_user_and_group_id(inp).user_id,
      group_id |-> get_user_and_group_id(inp).group_id,
      ambient_group |-> get_user_and_group_id(inp).ambient_group] :
        inp \in ExecInputs}

\* The clock's steps: the window less one second, the window, and one more.
TickSteps == {CooldownSeconds - 1, CooldownSeconds, CooldownSeconds + 1}

\* The invocations of execute that may be in progress at once.
Procs == {1, 2}

(* -------------------------------- state ------------------------------- *)

VARIABLES
    now,              \* time.time()
    last_poke_user,   \* line 83
    last_poke_group,  \* line 84
    last_poke_time,   \* line 85, _last_poke_time
    pc,               \* where each invocation in progress stands
    call,             \* each invocation's locals and its result
    started,          \* the number of invocations started so far
    sent,             \* the send_command calls made, in order
    action_log,       \* the store_action_info calls made, in order
    slots,            \* the invocations the host runs at once on the instance
    probe             \* one call of get_user_and_group_id: what it read and returned

vars == <<now, last_poke_user, last_poke_group, last_poke_time,
          pc, call, started, sent, action_log, slots, probe>>

NoResult == [kind |-> "none", ok |-> FALSE, msg |-> "none"]
Returned(ok, msg) == [kind |-> "return", ok |-> ok, msg |-> msg]
Raised(where) == [kind |-> "raise", ok |-> FALSE, msg |-> where]

NoDispatch == [called |-> FALSE, raised |-> FALSE, ok |-> FALSE, result |-> "none"]

\* What the gate of lines 162-166 read: whether the stored target equals the
\* resolved one, and time.time() - self._last_poke_time.
NoGate == [read |-> FALSE, same |-> FALSE, elapsed |-> 0]
GateRead(user_id, group_id) ==
    [read |-> TRUE,
     same |-> last_poke_user = user_id /\ last_poke_group = group_id,
     elapsed |-> now - last_poke_time]

\* No call of get_user_and_group_id is looked at.
NoProbe == [input |-> None, returned |-> FALSE, output |-> None]

\* The locals of an invocation that has not started.
BlankCall ==
    [id |-> 0, user_id |-> None, group_id |-> None, ambient_group |-> None,
     gate |-> NoGate, dispatch |-> NoDispatch, result |-> NoResult]

(* ------------------------------ execute ------------------------------- *)

\* The gate with the window one second short.
CooldownBlocksOffByOne(user_id, group_id, t) ==
    /\ last_poke_user = user_id
    /\ last_poke_group = group_id
    /\ t - last_poke_time < CooldownSeconds - 1

\* The gate without the comparison of the group (line 164).
CooldownBlocksUserOnly(user_id, group_id, t) ==
    /\ last_poke_user = user_id
    /\ t - last_poke_time < CooldownSeconds

\* The gate made one with the update: a target whose dispatch is still awaited
\* is blocked too, as if the cooldown state were written at the gate.
CooldownBlocksAwaited(user_id, group_id, t) ==
    \/ /\ last_poke_user = user_id
       /\ last_poke_group = group_id
       /\ t - last_poke_time < CooldownSeconds
    \/ \E i \in DOMAIN sent :
          /\ sent[i].outcome = "pending"
          /\ sent[i].qq_id = user_id
          /\ sent[i].group_id = group_id

\* Lines 162-166: the cooldown gate, t being time.time().
CooldownBlocks(user_id, group_id, t) ==
    /\ last_poke_user = user_id
    /\ last_poke_group = group_id
    /\ t - last_poke_time < CooldownSeconds

\* Line 170 as a test against None: an empty group id takes the group path.
ScopeUnlessNone(group_id) == IF group_id # None THEN "group" ELSE "friend"

\* Line 170: the dispatch path.
Scope(group_id) == IF Truthy(group_id) THEN "group" ELSE "friend"

\* Lines 172 and 175: the group stored after the dispatch.
StoredGroup(group_id) == IF Truthy(group_id) THEN group_id ELSE None

\* The dispatch step without its try/except: the fault of send_command leaves it.
send_poke_Propagates(transport_raises) ==
    IF transport_raises
    THEN [called |-> TRUE, raised |-> TRUE, ok |-> FALSE, result |-> "error"]
    ELSE [called |-> TRUE, raised |-> FALSE, ok |-> TRUE, result |-> "ok"]

\* Lines 129-148: _send_group_poke and _send_friend_poke have the same body;
\* transport_raises says whether send_command raised, raised whether the
\* dispatch step itself raised.
send_poke(transport_raises) ==
    IF transport_raises
    THEN [called |-> TRUE, raised |-> FALSE, ok |-> FALSE, result |-> "error"]
    ELSE [called |-> TRUE, raised |-> FALSE, ok |-> TRUE, result |-> "ok"]

\* The update without line 175: a direct dispatch leaves the stored group.
StoreCooldownKeepsGroup(user_id, group_id) ==
    /\ last_poke_group' = IF Truthy(group_id) THEN group_id ELSE last_poke_group
    /\ last_poke_user' = user_id
    /\ last_poke_time' = now

\* Lines 172-178 put off until after the action log is written: the dispatch
\* step leaves the cooldown state as it was.
StoreCooldownNotYet(user_id, group_id) ==
    UNCHANGED <<last_poke_user, last_poke_group, last_poke_time>>

\* Lines 172-178: the cooldown state stored after the dispatch.
StoreCooldown(user_id, group_id) ==
    /\ last_poke_group' = StoredGroup(group_id)
    /\ last_poke_user' = user_id
    /\ last_poke_time' = now

\* Line 180 without its test: the action log is written after every dispatch.
AfterUpdateAlwaysStores(ok) == "store"

\* Lines 180-194: what follows the cooldown update.
AfterUpdate(ok) ==
    IF ok THEN "store" ELSE IF POKE_DEBUG THEN "text" ELSE "return_failed"

\* Line 152: the locals of invocation number id after get_user_and_group_id
\* returned r.
Resolved(id, r) ==
    [BlankCall EXCEPT !.id = id, !.user_id = r.user_id, !.group_id = r.group_id,
                      !.ambient_group = r.ambient_group]

\* The host may call execute: the bound on invocations is not reached and
\* the host has a free slot p.
MayStart(p) ==
    /\ p \in slots
    /\ pc[p] \in {"idle", "done"}
    /\ started < MaxInvocations

InitState(s, pr) ==
    /\ now = StartTime
    /\ last_poke_user = None
    /\ last_poke_group = None
    /\ last_poke_time = 0
    /\ pc = [p \in Procs |-> "idle"]
    /\ call = [p \in Procs |-> BlankCall]
    /\ started = 0
    /\ sent = <<>>
    /\ action_log = <<>>
    /\ slots = s
    /\ probe = pr

\* parallel_action = False (line 44): one invocation at a time.
Init == InitState({1}, NoProbe)

\* time.time() advances.  The clock is read at the gate (line 165) and at the
\* update (line 178) only, so its steps are taken between invocations and
\* while a dispatch is awaited.
Tick ==
    /\ \A p \in Procs : pc[p] \in {"idle", "done", "send"}
    /\ \E d \in TickSteps : now + d <= MaxTime /\ now' = now + d
    /\ UNCHANGED <<last_poke_user, last_poke_group, last_poke_time,
                   pc, call, started, sent, action_log, slots, probe>>

\* An early return that starts the cooldown window again.
EarlyReturnRestartsWindow ==
    /\ last_poke_time' = now
    /\ UNCHANGED <<last_poke_user, last_poke_group>>

\* Lines 158-159 and 162-167: the early returns assign nothing to the
\* cooldown state.
EarlyReturn == UNCHANGED <<last_poke_user, last_poke_group, last_poke_time>>

\* Lines 152-159: no user id is resolved.
ExecuteNoTarget(p, r) ==
    /\ MayStart(p)
    /\ LET c == Resolved(started + 1, r)
       IN /\ ~Truthy(c.user_id)
          /\ call' = [call EXCEPT ![p] =
                        [c EXCEPT !.result = Returned(FALSE, MsgNoTarget)]]
    /\ pc' = [pc EXCEPT ![p] = "done"]
    /\ started' = started + 1
    /\ EarlyReturn
    /\ UNCHANGED <<now, sent, action_log, slots, probe>>

\* Lines 152-167: the cooldown gate rejects.
ExecuteDuplicate(p, r) ==
    /\ MayStart(p)
    /\ LET c == Resolved(started + 1, r)
       IN /\ Truthy(c.user_id)
          /\ CooldownBlocks(c.user_id, c.group_id, now)
          /\ call' = [call EXCEPT ![p] =
                        [c EXCEPT !.gate = GateRead(c.user_id, c.group_id),
                                  !.result = Returned(FALSE, MsgDuplicate)]]
    /\ pc' = [pc EXCEPT ![p] = "done"]
    /\ started' = started + 1
    /\ EarlyReturn
    /\ UNCHANGED <<now, sent, action_log, slots, probe>>

\* Lines 152-174 up to the await: send_command("SEND_POKE", {"qq_id": user_id}).
ExecuteDispatch(p, r) ==
    /\ MayStart(p)
    /\ LET c == Resolved(started + 1, r)
       IN /\ Truthy(c.user_id)
          /\ ~CooldownBlocks(c.user_id, c.group_id, now)
          /\ call' = [call EXCEPT ![p] =
                        [c EXCEPT !.gate = GateRead(c.user_id, c.group_id)]]
          /\ sent' = Append(sent, [command |-> "SEND_POKE", qq_id |-> c.user_id,
                                   scope |-> Scope(c.group_id),
                                   group_id |-> c.group_id,
                                   time |-> now, by |-> c.id,
                                   outcome |-> "pending"])
    /\ pc' = [pc EXCEPT ![p] = "send"]
    /\ started' = started + 1
    /\ UNCHANGED <<now, last_poke_user, last_poke_group, last_poke_time,
                   action_log, slots, probe>>

\* send_command returns or raises; lines 171-178 store the cooldown state;
\* lines 180-193 call store_action_info or send_text.
AfterSend(p, transport_raises) ==
    /\ pc[p] = "send"
    /\ LET d == send_poke(transport_raises)
           next == IF d.raised THEN "raise" ELSE AfterUpdate(d.ok)
       IN /\ call' = [call EXCEPT
                        ![p].dispatch = d,
                        ![p].result =
                            IF next = "raise" THEN Raised("send_command")
                            ELSE IF next = "return_failed"
                            THEN Returned(FALSE, MsgFailed)
                            ELSE @]
          /\ pc' = [pc EXCEPT ![p] =
                      IF next \in {"raise", "return_failed"} THEN "done" ELSE next]
          /\ IF d.raised
             THEN UNCHANGED <<last_poke_user, last_poke_group, last_poke_time>>
             ELSE StoreCooldown(call[p].user_id, call[p].group_id)
          /\ sent' = [i \in DOMAIN sent |->
                        IF sent[i].by = call[p].id
                        THEN [sent[i] EXCEPT !.outcome =
                                IF transport_raises THEN "error" ELSE "ok"]
                        ELSE sent[i]]
          /\ action_log' =
                IF next = "store"
                THEN Append(action_log,
                            [action_name |-> "poke", action_done |-> TRUE,
                             by |-> call[p].id])
                ELSE action_log
    /\ UNCHANGED <<now, started, slots, probe>>

\* Lines 182-190: store_action_info returns and execute returns success.
StoreReturns(p) ==
    /\ pc[p] = "store"
    /\ call' = [call EXCEPT ![p].result = Returned(TRUE, MsgSuccess)]
    /\ pc' = [pc EXCEPT ![p] = "done"]
    /\ UNCHANGED <<now, last_poke_user, last_poke_group, last_poke_time,
                   started, sent, action_log, slots, probe>>

\* Lines 182-189: store_action_info raises; nothing in execute catches it.
StoreRaises(p) ==
    /\ pc[p] = "store"
    /\ call' = [call EXCEPT ![p].result = Raised("store_action_info")]
    /\ pc' = [pc EXCEPT ![p] = "done"]
    /\ UNCHANGED <<now, last_poke_user, last_poke_group, last_poke_time,
                   started, sent, action_log, slots, probe>>

\* Lines 193-194: send_text returns and execute returns failure.
TextReturns(p) ==
    /\ pc[p] = "text"
    /\ call' = [call EXCEPT ![p].result = Returned(FALSE, MsgFailed)]
    /\ pc' = [pc EXCEPT ![p] = "done"]
    /\ UNCHANGED <<now, last_poke_user, last_poke_group, last_poke_time,
                   started, sent, action_log, slots, probe>>

\* Line 193: send_text raises; nothing in execute catches it.
TextRaises(p) ==
    /\ pc[p] = "text"
    /\ call' = [call EXCEPT ![p].result = Raised("send_text")]
    /\ pc' = [pc EXCEPT ![p] = "done"]
    /\ UNCHANGED <<now, last_poke_user, last_poke_group, last_poke_time,
                   started, sent, action_log, slots, probe>>

Next ==
    \/ Tick
    \/ \E p \in Procs :
        \/ \E r \in Resolutions : ExecuteNoTarget(p, r)
        \/ \E r \in Resolutions : ExecuteDuplicate(p, r)
        \/ \E r \in Resolutions : ExecuteDispatch(p, r)
        \/ \E transport_raises \in BOOLEAN : AfterSend(p, transport_raises)
        \/ StoreReturns(p)
        \/ StoreRaises(p)
        \/ TextReturns(p)
        \/ TextRaises(p)

Spec == Init /\ [][Next]_vars

(* ------------------- get_user_and_group_id on its own ----------------- *)

GM == <<"8", "1">>
GC == <<"8", "2">>
GS == <<"8", "3">>
\* "group_id:123"
TextGroup == GroupKey \o D123
\* "user_id: alice": the key with no digits after it
TextNoDigits == UserKey \o Sp \o Alice

\* The invocations get_user_and_group_id is applied to.
ResolveInputs ==
    {Input(u, g, mg, cg, sg, pid, pv, text) :
        u \in {None, Empty, U111, Alice},
        g \in {None, Empty, StrNone, G1},
        mg \in {Missing, None, GM},
        cg \in {None, GC},
        sg \in {Missing, None, StrNone, GS},
        pid \in {RAISE, None, P1},
        pv \in {RAISE, None, U222},
        text \in {Empty, TextUser111, TextGroupUser, TextGroup, TextNoDigits}}

InitResolve ==
    \E inp \in ResolveInputs : InitState({}, [NoProbe EXCEPT !.input = inp])

\* Line 152: get_user_and_group_id returns.
ResolveReturns ==
    /\ ~probe.returned
    /\ probe' = [probe EXCEPT !.returned = TRUE,
                              !.output = get_user_and_group_id(probe.input)]
    /\ UNCHANGED <<now, last_poke_user, last_poke_group, last_poke_time,
                   pc, call, started, sent, action_log, slots>>

NextResolve == ResolveReturns

SpecResolve == InitResolve /\ [][NextResolve]_vars

(* -------------------- invocations that interleave --------------------- *)

\* The host runs two invocations at once on the instance: each await of
\* execute (lines 171, 174, 182, 193) is a point where the other may run.
InitParallel == InitState(Procs, NoProbe)

\* The resolutions the interleaved invocations are driven with: no target,
\* and one user without a group and in the group "71".
ParallelResolutions ==
    {r \in Resolutions :
        /\ r.ambient_group = r.group_id
        /\ r.group_id \in {None, G1}
        /\ r.user_id # U222}

NextParallel ==
    \/ Tick
    \/ \E p \in Procs :
        \/ \E r \in ParallelResolutions : ExecuteNoTarget(p, r)
        \/ \E r \in ParallelResolutions : ExecuteDuplicate(p, r)
        \/ \E r \in ParallelResolutions : ExecuteDispatch(p, r)
        \/ \E transport_raises \in BOOLEAN : AfterSend(p, transport_raises)
        \/ StoreReturns(p)
        \/ StoreRaises(p)
        \/ TextReturns(p)
        \/ TextRaises(p)

SpecParallel == InitParallel /\ [][NextParallel]_vars

(* ------------------------------- claims ------------------------------- *)

\* The send_command calls invocation number id made.
SentBy(id) == {i \in DOMAIN sent : sent[i].by = id}
\* The store_action_info calls invocation number id made.
LoggedBy(id) == {j \in DOMAIN action_log : action_log[j].by = id}
\* The invocation in slot p is past the update of lines 172-178.
PastUpdate(p) == pc[p] \in {"store", "text", "done"} /\ call[p].dispatch.called

\* C1: an invocation whose resolved (user_id, group_id) equals the stored
\* last_poke_user / last_poke_group, less than 300 seconds after the stored
\* time, returns (False, duplicate-target message) and makes no send_command
\* call.
C1_DuplicateRejected ==
    \A p \in Procs :
        (/\ call[p].gate.read
         /\ call[p].gate.same
         /\ call[p].gate.elapsed < CooldownSeconds)
        => /\ pc[p] = "done"
           /\ call[p].result = Returned(FALSE, MsgDuplicate)
           /\ SentBy(call[p].id) = {}

\* C1, its case: a repeat of a target without a group, 299 seconds after the
\* stored time, was rejected.
C1_Witness ==
    \E p \in Procs :
        /\ call[p].gate.same
        /\ call[p].gate.elapsed = CooldownSeconds - 1
        /\ call[p].group_id = None
        /\ last_poke_group = None
        /\ call[p].result = Returned(FALSE, MsgDuplicate)

\* C2: any two send_command calls carrying the same (user_id, group_id) are at
\* least 300 seconds apart, other targets poked in between or not.
C2_SameTargetSpaced ==
    \A i, j \in DOMAIN sent :
        (/\ i < j
         /\ sent[i].qq_id = sent[j].qq_id
         /\ sent[i].group_id = sent[j].group_id)
        => sent[j].time - sent[i].time >= CooldownSeconds

\* C3: an invocation whose target equals the stored one, 300 seconds or more
\* after the stored time (300 exactly included), is dispatched, and if the
\* transport succeeds execute returns (True, success message).
C3_AfterWindowSucceeds ==
    \A p \in Procs :
        (/\ call[p].gate.read
         /\ call[p].gate.same
         /\ call[p].gate.elapsed >= CooldownSeconds)
        => /\ SentBy(call[p].id) # {}
           /\ (pc[p] = "done" /\ call[p].dispatch.ok)
                => call[p].result = Returned(TRUE, MsgSuccess)

\* C3, the gate's part alone: such an invocation is never rejected as a
\* duplicate and makes its send_command call.
C3_GatePassesAfterWindow ==
    \A p \in Procs :
        (/\ call[p].gate.read
         /\ call[p].gate.same
         /\ call[p].gate.elapsed >= CooldownSeconds)
        => /\ SentBy(call[p].id) # {}
           /\ call[p].result # Returned(FALSE, MsgDuplicate)

\* C3, its case: a repeat of the stored target exactly 300 seconds after the
\* stored time was dispatched.
C3_GateWitness ==
    \E p \in Procs :
        /\ call[p].gate.same
        /\ call[p].gate.elapsed = CooldownSeconds
        /\ SentBy(call[p].id) # {}

C6_LogOncePerSuccess ==
    /\ \A j \in DOMAIN action_log :
          action_log[j].action_name = "poke" /\ action_log[j].action_done
    /\ \A id \in 1..MaxInvocations :
          Cardinality(LoggedBy(id)) =
            IF \E i \in SentBy(id) : sent[i].outcome = "ok" THEN 1 ELSE 0

\* C6, its case: one dispatch succeeded, one failed, a third invocation was
\* rejected as a duplicate, and the log holds one record.
C6_Witness ==
    /\ Len(action_log) = 1
    /\ \E i, j \in DOMAIN sent : sent[i].outcome = "ok" /\ sent[j].outcome = "error"
    /\ \E p \in Procs :
          /\ pc[p] = "done"
          /\ call[p].result = Returned(FALSE, MsgDuplicate)
          /\ call[p].id = 3

\* C7: when no user id is resolved, get_user_and_group_id returns (None, None)
\* whatever group id it had found, and execute returns (False, no-target
\* message) without a send_command call.
C7_NoTargetFails ==
    \A p \in Procs :
        (call[p].id > 0 /\ call[p].user_id = None)
        => /\ call[p].group_id = None
           /\ pc[p] = "done"
           /\ call[p].result = Returned(FALSE, MsgNoTarget)
           /\ SentBy(call[p].id) = {}

\* C7, its case: a group id had been found, no user id, and execute returned
\* the no-target failure.
C7_Witness ==
    \E p \in Procs :
        /\ call[p].id > 0
        /\ call[p].user_id = None
        /\ call[p].ambient_group = G1
        /\ call[p].result = Returned(FALSE, MsgNoTarget)

\* C8: when send_command raises, on the group path or on the direct path, the
\* dispatch step returns (False, error description) and does not raise.
C8_DispatchCatches ==
    \A p \in Procs :
        \A i \in SentBy(call[p].id) :
            sent[i].outcome = "error"
            => /\ call[p].dispatch =
                    [called |-> TRUE, raised |-> FALSE, ok |-> FALSE,
                     result |-> "error"]
               /\ call[p].result # Raised("send_command")

\* C8, its case: send_command has raised on the group path and on the direct
\* path, and the last of the two invocations went on to its failure branch.
C8_Witness ==
    /\ \E i, j \in DOMAIN sent :
          /\ sent[i].scope = "group" /\ sent[i].outcome = "error"
          /\ sent[j].scope = "friend" /\ sent[j].outcome = "error"
    /\ \E p \in Procs :
          /\ pc[p] = "text"
          /\ ~call[p].dispatch.ok
          /\ \E i \in SentBy(call[p].id) : sent[i].outcome = "error"

\* C9: execute never ends with an uncaught fault: whatever its collaborators
\* do, an invocation that has ended has returned a (bool, message) result.
C9_ExecuteAlwaysReturns ==
    \A p \in Procs : pc[p] = "done" => call[p].result.kind = "return"

\* C10: when user_reference is present and all digits, the resolved user id is
\* that string and person_api is not called, whatever person_api would do and
\* whatever llm_response_text holds.
C10_DigitsShortCircuit ==
    (/\ probe.returned
     /\ Truthy(probe.input.user_id)
     /\ isdigit(probe.input.user_id))
    => /\ probe.output.user_id = probe.input.user_id
       /\ probe.output.resolver_calls = 0

\* C10, its case: an all-digits reference was resolved to itself although
\* person_api would have mapped it to another id and the text names a third.
C10_Witness ==
    /\ probe.returned
    /\ probe.input.user_id = U111
    /\ probe.input.person_id = P1
    /\ probe.input.person_value = U222
    /\ probe.input.llm_response_text = TextGroupUser
    /\ probe.output.user_id = U111
    /\ probe.output.resolver_calls = 0

\* C11: for a user_reference that is present and not all digits: when
\* get_person_id_by_name yields a person and get_person_value yields a user
\* id, the resolved user id is that id; when either call raises or yields
\* nothing, the resolution goes on to the scan of llm_response_text, so the
\* resolved user id is the id after "user_id:" in the text, if there is one.
C11_ResolverThenText ==
    (/\ probe.returned
     /\ Truthy(probe.input.user_id)
     /\ ~isdigit(probe.input.user_id))
    => IF Truthy(probe.input.person_id) /\ Truthy(probe.input.person_value)
       THEN /\ probe.output.user_id = probe.input.person_value
            /\ probe.output.via = "person_api"
       ELSE /\ probe.output.user_id =
                  re_search(UserKey, probe.input.llm_response_text)
            /\ probe.output.via \in {"text", "none"}

\* C11, its case: the name was mapped to a person, get_person_value raised,
\* and the user id was taken from the text.
C11_Witness ==
    /\ probe.returned
    /\ probe.input.user_id = Alice
    /\ probe.input.person_id = P1
    /\ probe.input.person_value = RAISE
    /\ probe.input.llm_response_text = TextUser111
    /\ probe.output.user_id = U111
    /\ probe.output.resolver_calls = 2

\* The digits shortcut and the person_api lookup left the user unresolved.
UnresolvedBeforeText(inp) ==
    /\ ~(Truthy(inp.user_id) /\ isdigit(inp.user_id))
    /\ ~(Truthy(inp.user_id) /\ Truthy(inp.person_id) /\ Truthy(inp.person_value))

\* C12: when the earlier steps leave the user unresolved and
\* llm_response_text holds a user_id pattern, the result is the matched user
\* id with the matched group id if the text holds a group_id pattern too
\* (whatever group id was found before), and with the group id found before
\* otherwise; "group_id: 123 user_id: 456" gives ("456", "123").
C12_TextPatterns ==
    (/\ probe.returned
     /\ UnresolvedBeforeText(probe.input)
     /\ re_search(UserKey, probe.input.llm_response_text) # None)
    => /\ probe.output.user_id = re_search(UserKey, probe.input.llm_response_text)
       /\ probe.output.group_id =
            IF re_search(GroupKey, probe.input.llm_response_text) # None
            THEN re_search(GroupKey, probe.input.llm_response_text)
            ELSE AmbientGroup(probe.input)
       /\ probe.input.llm_response_text = TextGroupUser
            => probe.output.user_id = D456 /\ probe.output.group_id = D123
       /\ probe.input.llm_response_text = TextUser111
            => probe.output.user_id = U111

\* C12, its case: action_data named the group "71", no user was resolved
\* before the text, and "group_id: 123 user_id: 456" gave ("456", "123").
C12_Witness ==
    /\ probe.returned
    /\ probe.input.user_id = None
    /\ probe.input.group_id = G1
    /\ probe.input.llm_response_text = TextGroupUser
    /\ probe.output.user_id = D456
    /\ probe.output.group_id = D123
    /\ probe.output.ambient_group = G1

\* C13: the string "None" is the same as absence in the group resolution: for
\* every ambient context, group_id "None" in action_data resolves to the group
\* id that an absent group_id resolves to, and the resolved group id is never
\* the string "None".
C13_NoneStringIsAbsence ==
    (probe.returned /\ probe.input.group_id = StrNone)
    => /\ probe.output.group_id =
            get_user_and_group_id([probe.input EXCEPT !.group_id = None]).group_id
       /\ probe.output.group_id # StrNone

\* C13, the part that holds: whatever the sources hold, the resolved group id
\* is never the string "None".
C13_NoneStringNeverResolved ==
    probe.returned => probe.output.group_id # StrNone

\* C13, its failing case: group_id is "None" in action_data, the message
\* metadata names a group, and no group is resolved.
C13_BlocksAmbient ==
    /\ probe.returned
    /\ probe.input.group_id = StrNone
    /\ probe.input.message_group = GM
    /\ probe.input.user_id = U111
    /\ probe.output.group_id = None

\* C14: the group id resolved before the text scan is the first present value
\* among action_data's group_id, the message metadata's group id, the chat
\* stream's group id and the instance's group_id attribute, in that order
\* (the string "None" counting as absent, as C13 has it); it is absent when
\* none of them is present.
C14_GroupPriority ==
    probe.returned
    => LET present(v) == Truthy(v) /\ v # StrNone
           inp == probe.input
           found == probe.output.ambient_group
       IN IF present(inp.group_id) THEN found = inp.group_id
          ELSE IF present(inp.message_group) THEN found = inp.message_group
          ELSE IF present(inp.chat_stream_group) THEN found = inp.chat_stream_group
          ELSE IF present(inp.self_group) THEN found = inp.self_group
          ELSE ~present(found)

\* C14, the part that holds: the priority order is kept whenever action_data's
\* group_id is not the string "None".
C14_GroupPriorityWithoutNoneString ==
    (probe.returned /\ probe.input.group_id # StrNone)
    => LET present(v) == Truthy(v) /\ v # StrNone
           inp == probe.input
           found == probe.output.ambient_group
       IN IF present(inp.group_id) THEN found = inp.group_id
          ELSE IF present(inp.message_group) THEN found = inp.message_group
          ELSE IF present(inp.chat_stream_group) THEN found = inp.chat_stream_group
          ELSE IF present(inp.self_group) THEN found = inp.self_group
          ELSE ~present(found)

\* C14, a case that holds: action_data has an empty group_id, the message
\* metadata has none, and the chat stream's group id is taken although the
\* instance attribute is set too.
C14_ChatStreamBeforeInstance ==
    /\ probe.returned
    /\ probe.input.group_id = Empty
    /\ probe.input.message_group = None
    /\ probe.input.chat_stream_group = GC
    /\ probe.input.self_group = GS
    /\ probe.output.ambient_group = GC

\* C15: every send_command call is made on the group path exactly when the
\* resolved group id is present (not None and not empty) and on the friend
\* path otherwise; on both paths the command is SEND_POKE with the resolved
\* user id; and an invocation that dispatches makes exactly one such call.
C15_OnePathByGroup ==
    /\ \A i \in DOMAIN sent :
          /\ sent[i].scope \in {"group", "friend"}
          /\ sent[i].scope = "group" <=> sent[i].group_id \notin {None, Empty}
          /\ sent[i].command = "SEND_POKE"
    /\ \A p \in Procs :
          /\ \A i \in SentBy(call[p].id) :
                /\ sent[i].qq_id = call[p].user_id
                /\ sent[i].group_id = call[p].group_id
          /\ (pc[p] = "send" \/ call[p].dispatch.called)
                => SentBy(call[p].id) # {}
    /\ \A i, j \in DOMAIN sent : sent[i].by = sent[j].by => i = j

\* C15, its case: one invocation with the group "71" went through the group
\* path, and the next, with an empty group id, through the friend path.
C15_Witness ==
    /\ Len(sent) = 2
    /\ sent[1].scope = "group" /\ sent[1].group_id = G1
    /\ sent[2].scope = "friend" /\ sent[2].group_id = Empty
    /\ sent[2].outcome = "ok"
    /\ \E p \in Procs : call[p].id = sent[2].by /\ call[p].dispatch.called

\* C16: the gate reads only the stored cooldown state, which an invocation
\* suspended in its dispatch has not written yet: when an invocation is
\* suspended in send_command and a later invocation for the same
\* (user_id, group_id) runs before any dispatch to that target has completed,
\* the later one is not rejected as a duplicate and makes its own
\* send_command call.
C16_InterleavedBothDispatch ==
    \A p, q \in Procs :
        (/\ p # q
         /\ pc[p] = "send"
         /\ call[q].id > call[p].id
         /\ call[q].user_id = call[p].user_id
         /\ call[q].group_id = call[p].group_id
         /\ \A i \in DOMAIN sent :
               (/\ sent[i].qq_id = call[p].user_id
                /\ StoredGroup(sent[i].group_id) = call[p].group_id
                /\ sent[i].outcome # "pending")
               => sent[i].by = call[q].id)
        => /\ SentBy(call[q].id) # {}
           /\ call[q].result # Returned(FALSE, MsgDuplicate)

\* C16, its case: two invocations for the same user in the same group are
\* both suspended in send_command, their two SEND_POKE commands made at the
\* same second.
C16_Witness ==
    \E p, q \in Procs :
        /\ p # q
        /\ pc[p] = "send" /\ pc[q] = "send"
        /\ call[p].user_id = call[q].user_id
        /\ call[p].group_id = G1 /\ call[q].group_id = G1
        /\ \E i \in SentBy(call[p].id), j \in SentBy(call[q].id) :
              /\ i < j
              /\ sent[i].outcome = "pending" /\ sent[j].outcome = "pending"
              /\ sent[j].time - sent[i].time < CooldownSeconds

\* C16, the other side: with one invocation at a time no two send_command
\* calls are awaited at once.
C16_OneAwaitedAtATime ==
    Cardinality({i \in DOMAIN sent : sent[i].outcome = "pending"}) <= 1

C18_FirstSuccessWins ==
    (probe.returned /\ ~UnresolvedBeforeText(probe.input))
    => LET bare == get_user_and_group_id(
                      [probe.input EXCEPT !.llm_response_text = Empty])
       IN /\ probe.output.user_id = bare.user_id
          /\ probe.output.group_id = bare.group_id
          /\ probe.output.user_id \in
                {probe.input.user_id, probe.input.person_value}
          /\ probe.output.via \in {"digits", "person_api"}

\* C18, its case: person_api resolved the name, the text named another user
\* and another group, and the result is person_api's user id with the group
\* id of action_data.
C18_Witness ==
    /\ probe.returned
    /\ probe.input.user_id = Alice
    /\ probe.input.group_id = G1
    /\ probe.input.person_id = P1
    /\ probe.input.person_value = U222
    /\ probe.input.llm_response_text = TextGroupUser
    /\ probe.output.user_id = U222
    /\ probe.output.group_id = G1

\* C19: a step in which an invocation ends in no-target or in duplicate
\* leaves last_poke_user, last_poke_group and the stored time as they were,
\* and the stored time changes only when a dispatch returns, to the time of
\* that return: rejected attempts never move the start of the window, so a
\* target is let through again 300 seconds after the last dispatch.
C19_RejectionKeepsCooldown ==
    [][/\ (\E p \in Procs :
              /\ call'[p].id = started + 1
              /\ call'[p].result \in {Returned(FALSE, MsgNoTarget),
                                      Returned(FALSE, MsgDuplicate)})
          => /\ last_poke_user' = last_poke_user
             /\ last_poke_group' = last_poke_group
             /\ last_poke_time' = last_poke_time
       /\ (<<last_poke_user, last_poke_group, last_poke_time>>'
             # <<last_poke_user, last_poke_group, last_poke_time>>)
          => \E i \in DOMAIN sent :
                /\ sent[i].outcome = "pending"
                /\ sent'[i].outcome # "pending"
                /\ last_poke_user' = sent[i].qq_id
                /\ last_poke_time' = now
       /\ (\E p \in Procs :
              /\ call'[p].id = started + 1
              /\ call'[p].gate.read
              /\ now - last_poke_time >= CooldownSeconds)
          => Len(sent') = Len(sent) + 1
      ]_vars

\* C19, its case: a target was poked, an attempt was rejected without a
\* send_command call, and 299 seconds later the third invocation was rejected
\* as a duplicate, the stored time still that of the one dispatch.
C19_Witness ==
    \E p \in Procs :
        /\ pc[p] = "done"
        /\ call[p].id = 3
        /\ call[p].result = Returned(FALSE, MsgDuplicate)
        /\ call[p].gate.elapsed = CooldownSeconds - 1
        /\ Len(sent) = 1
        /\ sent[1].time = last_poke_time
        /\ now - last_poke_time = CooldownSeconds - 1

====
